---------------------------- MODULE Spec2Model ----------------------------
(***************************************************************************)
(* Model of the Alchemy operation engine                                   *)
(* (engine/src/api/schema/operations.rs, engine/src/lib/database/          *)
(* database.rs): the operation registry, the Get and GetAll operation      *)
(* variants, the JSON -> juniper value converter and the DATABASE handle.  *)
(*                                                                         *)
(* Strings the code takes apart (entity names, operation keys) are         *)
(* sequences of one-character strings; opaque strings stay TLA+ strings.   *)
(***************************************************************************)
EXTENDS Integers, Sequences, FiniteSets, TLC

VARIABLES
    operations,   \* OperationRegistry.operations : key -> OperationEntry
    registered,   \* history: the register_entity calls made so far, in order
    calls,        \* per caller slot: the state of its call_by_key future
    handles,      \* number of ArangoDB values constructed so far (ArangoDB::new)
    num,          \* input of convert_number (specification SpecNum)
    converted     \* Some(its output), or None before it ran

vars == <<operations, registered, calls, handles, num, converted>>

---------------------------------------------------------------------------
(* Bounds *)

MaxRegs == 2       \* register_entity calls in a run
MaxHandles == 2    \* calls that reach the store in a run

Slots == {1, 2}    \* concurrently live call futures

---------------------------------------------------------------------------
(* Characters and case (convert_case / pluralizer work on these) *)

Lowers == <<"a","b","c","d","e","f","g","h","i","j","k","l","m",
            "n","o","p","q","r","s","t","u","v","w","x","y","z">>
Uppers == <<"A","B","C","D","E","F","G","H","I","J","K","L","M",
            "N","O","P","Q","R","S","T","U","V","W","X","Y","Z">>

Range(s) == {s[i] : i \in DOMAIN s}
IsLower(c) == c \in Range(Lowers)
IsUpper(c) == c \in Range(Uppers)
IndexOf(c, s) == CHOOSE i \in DOMAIN s : s[i] = c
ToUpper(c) == IF IsLower(c) THEN Uppers[IndexOf(c, Lowers)] ELSE c
ToLower(c) == IF IsUpper(c) THEN Lowers[IndexOf(c, Uppers)] ELSE c
LowerStr(s) == [i \in DOMAIN s |-> ToLower(s[i])]
IsDelim(c) == c \in {"_", "-", " "}
IsVowel(c) == ToLower(c) \in {"a", "e", "i", "o", "u"}

\* Does word end with suffix (a lower-case sequence), ignoring case: the /...$/i rules
EndsWithCI(word, suffix) ==
    /\ Len(word) >= Len(suffix)
    /\ LowerStr(SubSeq(word, Len(word) - Len(suffix) + 1, Len(word))) = suffix

DropLast(word, n) == SubSeq(word, 1, Len(word) - n)

\* str.to_case(Case::Pascal): words are split at delimiters and at a
\* lower -> upper boundary; each word is capitalised and the words are joined.
RECURSIVE PascalRec(_, _, _)
PascalRec(s, newWord, prevLower) ==
    IF s = <<>> THEN <<>>
    ELSE LET c == Head(s) IN
         IF IsDelim(c) THEN PascalRec(Tail(s), TRUE, FALSE)
         ELSE IF newWord \/ (IsUpper(c) /\ prevLower)
              THEN <<ToUpper(c)>> \o PascalRec(Tail(s), FALSE, IsLower(c))
              ELSE <<ToLower(c)>> \o PascalRec(Tail(s), FALSE, IsLower(c))

ToPascal(s) == PascalRec(s, TRUE, FALSE)

\* pluralizer's plural rules, in priority order, as far as the names of the
\* pool reach them: /([^aeiouy]|qu)y$/i -> $1ies; /(x|ch|ss|sh|zz)$/i -> $1es;
\* /s?$/i -> s.
ToPlural(word) ==
    IF word = <<>> THEN word
    ELSE IF /\ Len(word) >= 2
            /\ EndsWithCI(word, <<"y">>)
            /\ ~IsVowel(word[Len(word) - 1])
            /\ ToLower(word[Len(word) - 1]) # "y"
         THEN DropLast(word, 1) \o <<"i","e","s">>
    ELSE IF \/ EndsWithCI(word, <<"x">>) \/ EndsWithCI(word, <<"c","h">>)
            \/ EndsWithCI(word, <<"s","s">>) \/ EndsWithCI(word, <<"s","h">>)
            \/ EndsWithCI(word, <<"z","z">>)
         THEN word \o <<"e","s">>
    ELSE IF EndsWithCI(word, <<"s">>) THEN word
    ELSE word \o <<"s">>

\* pluralizer's singular rules: /ies$/i -> y; /(ss)$/i -> $1; /s$/i -> ''.
ToSingular(word) ==
    IF word = <<>> THEN word
    ELSE IF EndsWithCI(word, <<"i","e","s">>) THEN DropLast(word, 3) \o <<"y">>
    ELSE IF EndsWithCI(word, <<"s","s">>) THEN word
    ELSE IF EndsWithCI(word, <<"s">>) THEN DropLast(word, 1)
    ELSE word

\* pluralizer::pluralize(word, count, false)
Pluralize(word, count) == IF count = 1 THEN ToSingular(word) ELSE ToPlural(word)

---------------------------------------------------------------------------
(* Entities and the registrations a run draws from *)

NameUser == <<"u","s","e","r">>
NameUsers == <<"U","s","e","r","s">>
NamePandey == <<"p","a","n","d","e","y">>

DbEntity(name, coll) == [name |-> name, collection_name |-> coll]
DbRelationship(name, from) == [name |-> name, from |-> from]

\* OperationData { entity, relationships }
OperationData(entity, relationships) ==
    [entity |-> entity, relationships |-> relationships]

RegPool ==
    { OperationData(DbEntity(NameUser, "users"), <<>>),
      OperationData(DbEntity(NameUser, "people"),
                    <<DbRelationship("likes", DbEntity(NameUser, "people"))>>),
      OperationData(DbEntity(NameUsers, "members"), <<>>),
      OperationData(DbEntity(NamePandey, "pandeys"), <<>>) }

---------------------------------------------------------------------------
(* Operation names *)

GetPrefix == <<"g","e","t">>
GetAllPrefix == <<"g","e","t","A","l","l">>

\* Get::get_operation_name
GetOperationName(data) == GetPrefix \o Pluralize(ToPascal(data.entity.name), 1)

\* GetAll::get_operation_name
GetAllOperationName(data) == GetAllPrefix \o Pluralize(ToPascal(data.entity.name), 2)

OperationName(variant, data) ==
    IF variant = "Get" THEN GetOperationName(data) ELSE GetAllOperationName(data)

Variants == {"Get", "GetAll"}

---------------------------------------------------------------------------
(* Registry *)

\* mutant of Insert: a present key keeps its old entry
InsertKeepOld(map, k, v) == map @@ (k :> v)

\* HashMap::insert: a present key is overwritten
Insert(map, k, v) == (k :> v) @@ map

\* mutant of Register: every variant is filed under the Get name
RegisterUnderGetName(ops, variant, data) ==
    Insert(ops, GetOperationName(data), [variant |-> variant, data |-> data])

\* OperationRegistry::register::<T>
Register(ops, variant, data) ==
    Insert(ops, OperationName(variant, data), [variant |-> variant, data |-> data])

\* OperationRegistry::register_entity
RegisterEntityOps(ops, data) ==
    Register(Register(ops, "Get", data), "GetAll", data)

---------------------------------------------------------------------------
(* serde_json numbers.  A 64-bit magnitude is four 16-bit limbs, most        *)
(* significant first, so that u64 / i64 values keep their width.            *)

Base == 2^16
Half == 2^15

\* serde_json::Number: N::PosInt(u64) | N::NegInt(i64, always < 0) | N::Float(f64)
PosInt(limbs) == [k |-> "PosInt", m |-> limbs]
NegInt(limbs) == [k |-> "NegInt", m |-> limbs]   \* m is the magnitude of the value
Float(f) == [k |-> "Float", f |-> f]

Zero64 == <<0, 0, 0, 0>>
I64MaxMag == <<Half - 1, Base - 1, Base - 1, Base - 1>>     \* i64::MAX
I64MinMag == <<Half, 0, 0, 0>>                              \* |i64::MIN|
I32MaxMag == <<0, 0, Half - 1, Base - 1>>                   \* i32::MAX as i64 / as u64
I32MinMag == <<0, 0, Half, 0>>                              \* |i32::MIN as i64|
I32MinAsU64 == <<Base - 1, Base - 1, Half, 0>>              \* i32::MIN as u64

I32_MAX == 2147483647
I32_MIN == -I32_MAX - 1

\* unsigned comparison of two magnitudes
RECURSIVE MagLess(_, _)
MagLess(a, b) ==
    IF a = <<>> THEN FALSE
    ELSE IF Head(a) # Head(b) THEN Head(a) < Head(b)
    ELSE MagLess(Tail(a), Tail(b))

MagGreater(a, b) == MagLess(b, a)

\* Number::is_i64: PosInt(v) => v <= i64::MAX, NegInt => true, Float => false
IsI64(n) ==
    \/ n.k = "NegInt"
    \/ n.k = "PosInt" /\ ~MagGreater(n.m, I64MaxMag)

\* Number::is_u64: PosInt => true, otherwise false
IsU64(n) == n.k = "PosInt"

\* Rust's `as i32` from a 64-bit integer: the low 32 bits, two's complement.
\* bits is the 64-bit pattern's low two limbs <<hi, lo>>.
SignedOfLow32(hi, lo) ==
    IF hi >= Half THEN (hi - Base) * Base + lo ELSE hi * Base + lo

\* low 32 bits of the two's complement of magnitude m (the pattern of -m)
NegLow32(m) ==
    IF m[3] = 0 /\ m[4] = 0 THEN <<0, 0>>
    ELSE IF m[4] = 0 THEN <<Base - m[3], 0>>
    ELSE <<Base - 1 - m[3], Base - m[4]>>

\* (v as i32) for the i64 v of sign neg and magnitude m
I64AsI32(neg, m) ==
    IF neg THEN SignedOfLow32(NegLow32(m)[1], NegLow32(m)[2])
    ELSE SignedOfLow32(m[3], m[4])

\* (v as i32) for the u64 v = m
U64AsI32(m) == SignedOfLow32(m[3], m[4])

\* juniper::Value
VNull == [t |-> "Null"]
VInt(i) == [t |-> "Scalar", s |-> "Int", v |-> i]
VFloat(f) == [t |-> "Scalar", s |-> "Float", v |-> f]
VBool(b) == [t |-> "Scalar", s |-> "Boolean", v |-> b]
VString(x) == [t |-> "Scalar", s |-> "String", v |-> x]
VList(items) == [t |-> "List", items |-> items]
VObject(fields) == [t |-> "Object", fields |-> fields]

\* mutant of ClampI64: the upper clamp is missing, the cast wraps
ClampI64NoUpper(neg, m) ==
    IF neg /\ MagGreater(m, I32MinMag) THEN I32_MIN
    ELSE I64AsI32(neg, m)

\* the is_i64 branch of convert_number
ClampI64(neg, m) ==
    IF ~neg /\ MagGreater(m, I32MaxMag) THEN I32_MAX        \* v > i32::MAX as i64
    ELSE IF neg /\ MagGreater(m, I32MinMag) THEN I32_MIN    \* v < i32::MIN as i64
    ELSE I64AsI32(neg, m)

\* the is_u64 branch of convert_number
ClampU64(m) ==
    IF MagGreater(m, I32MaxMag) THEN I32_MAX                \* v > i32::MAX as u64
    ELSE IF MagLess(m, I32MinAsU64) THEN I32_MIN            \* v < i32::MIN as u64
    ELSE U64AsI32(m)

\* convert_number
ConvertNumber(n) ==
    IF IsI64(n) THEN VInt(ClampI64(n.k = "NegInt", n.m))
    ELSE IF IsU64(n) THEN VInt(ClampU64(n.m))
    ELSE VFloat(n.f)

---------------------------------------------------------------------------
(* serde_json::Value and the converter *)

JNull == [t |-> "Null"]
JBool(b) == [t |-> "Bool", v |-> b]
JNumber(n) == [t |-> "Number", n |-> n]
JString(x) == [t |-> "String", v |-> x]
JArray(a) == [t |-> "Array", a |-> a]
JObject(o) == [t |-> "Object", o |-> o]

\* convert_json_to_juniper_value and its inner fn convert
RECURSIVE Convert(_)
Convert(val) ==
    CASE val.t = "Null" -> VNull
      [] val.t = "Bool" -> VBool(val.v)
      [] val.t = "Number" -> ConvertNumber(val.n)
      [] val.t = "String" -> VString(val.v)
      [] val.t = "Array" -> VList([i \in DOMAIN val.a |-> Convert(val.a[i])])
      [] val.t = "Object" -> VObject([key \in DOMAIN val.o |-> Convert(val.o[key])])

\* convert_json_to_juniper_value(first.as_object().unwrap())
ConvertJsonToJuniperValue(doc) == VObject([key \in DOMAIN doc.o |-> Convert(doc.o[key])])

---------------------------------------------------------------------------
(* Options, results *)

None == [t |-> "None"]
Some(x) == [t |-> "Some", v |-> x]

Ok(v) == [t |-> "Ok", v |-> v]
Err(e) == [t |-> "Err", e |-> e]

\* NotFoundError::new(entity.name.clone()).into_field_error()
NotFoundError(name) == [kind |-> "NotFound", name |-> name]

\* ClientError of the store client
ClientError == [kind |-> "ClientError"]

---------------------------------------------------------------------------
(* The query builder (crate::lib::database::aql) *)

AQLQueryParameter(name) == [t |-> "Parameter", name |-> name]
AQLQueryBind(name) == [t |-> "Bind", name |-> name]
AQLFilter(left, op, right) == [left_node |-> left, operation |-> op, right_node |-> right]

AQLQuery(filter, limit) == [filter |-> filter, limit |-> limit]

\* AQLQuery::get_argument_key: the bind key assigned to a logical argument name
GetArgumentKey(query, name) == "arg_" \o name

\* rendering of one filter node: a bind node renders as a reference to its bind key
NodeToAql(query, node) ==
    IF node.t = "Bind" THEN [bindref |-> GetArgumentKey(query, node.name)]
    ELSE [param |-> node.name]

\* AQLQuery::to_aql: the query text, as a sequence of tokens
ToAql(query) ==
    <<[kw |-> "FOR"], [bindref |-> "@collection"]>>
    \o (IF query.filter = None THEN <<>>
        ELSE <<[kw |-> "FILTER"],
               NodeToAql(query, query.filter.v.left_node),
               [op |-> query.filter.v.operation],
               NodeToAql(query, query.filter.v.right_node)>>)
    \o (IF query.limit = None THEN <<>> ELSE <<[kw |-> "LIMIT"], [limit |-> query.limit.v]>>)
    \o <<[kw |-> "RETURN"]>>

---------------------------------------------------------------------------
(* Inputs of a call: juniper arguments and the schema layer's base query *)

Arguments(id, limit) == [id |-> id, limit |-> limit]

CallInputs ==
    { [args |-> Arguments("123", None), query |-> AQLQuery(None, None)],
      [args |-> Arguments("456", Some(5)),
       query |-> AQLQuery(Some(AQLFilter(AQLQueryParameter("name"), "EQUAL",
                                         AQLQueryBind("name"))), Some(7))] }

\* documents the store may return
Doc1 ==
    JObject([key \in {"_key", "firstName"} |->
                IF key = "_key" THEN JString("123") ELSE JString("A")])
Doc2 ==
    JObject([key \in {"_key", "age", "tags"} |->
                CASE key = "_key" -> JString("456")
                  [] key = "age" -> JNumber(PosInt(<<0, 0, 45776, 24064>>))  \* 3000000000
                  [] key = "tags" -> JArray(<<JNull, JBool(TRUE), JNumber(Float("1.5")),
                                              JObject([k \in {"n"} |-> JNumber(NegInt(<<0, 0, 0, 5>>))])>>)])
SeqsUpTo(S, n) == UNION {[1..k -> S] : k \in 0..n}

\* Result<Vec<JsonValue>, ClientError>: what the store may answer
StoreReplies ==
    {Err(ClientError), Ok(<<>>), Ok(<<Doc1>>), Ok(<<Doc2, Doc1>>)}

---------------------------------------------------------------------------
(* Operation variants *)

\* mutant of GetBuildQuery: the base query's limit is kept
GetBuildQueryKeepLimit(query) ==
    [query EXCEPT
        !.filter = Some(AQLFilter(AQLQueryParameter("_key"), "EQUAL", AQLQueryBind("id")))]

\* Get::call, before the async block: the filter and the limit are overwritten
GetBuildQuery(query) ==
    [query EXCEPT
        !.filter = Some(AQLFilter(AQLQueryParameter("_key"), "EQUAL", AQLQueryBind("id"))),
        !.limit = Some(1)]

\* GetAll::call, before the async block
GetAllBuildQuery(query, arguments) == [query EXCEPT !.limit = arguments.limit]

\* Get::call: the bind variables of the AqlQuery builder
GetBinds(query, data, arguments) ==
    ("@collection" :> data.entity.collection_name)
    @@ (GetArgumentKey(query, "id") :> arguments.id)

\* GetAll::call: the bind variables of the AqlQuery builder
GetAllBinds(query, data, arguments) ==
    ("@collection" :> data.entity.collection_name)

\* mutant of GetResult: the last document is converted, not the first
GetResultLast(data, entries) ==
    IF entries.t = "Ok" /\ Len(entries.v) > 0
    THEN Ok(ConvertJsonToJuniperValue(entries.v[Len(entries.v)]))
    ELSE Err(NotFoundError(data.entity.name))

\* Get::call: the match on the store's reply
GetResult(data, entries) ==
    IF entries.t = "Ok"
    THEN IF Len(entries.v) > 0
         THEN Ok(ConvertJsonToJuniperValue(Head(entries.v)))
         ELSE Err(NotFoundError(data.entity.name))
    ELSE Err(NotFoundError(data.entity.name))

\* mutant of GetAllResult: a store failure is folded into an empty list
GetAllResultMasking(data, entries) ==
    IF entries.t = "Ok"
    THEN Ok(VList([i \in DOMAIN entries.v |-> ConvertJsonToJuniperValue(entries.v[i])]))
    ELSE Ok(VList(<<>>))

\* mutant of GetAllResult: the documents are pushed in front, reversing the list
GetAllResultReversed(data, entries) ==
    IF entries.t = "Ok"
    THEN Ok(VList([i \in DOMAIN entries.v |->
                     ConvertJsonToJuniperValue(entries.v[Len(entries.v) + 1 - i])]))
    ELSE Err(NotFoundError(data.entity.name))

\* GetAll::call: the match on the store's reply
GetAllResult(data, entries) ==
    IF entries.t = "Ok"
    THEN Ok(VList([i \in DOMAIN entries.v |-> ConvertJsonToJuniperValue(entries.v[i])]))
    ELSE Err(NotFoundError(data.entity.name))

\* pub const DATABASE = Box::pin(ArangoDB::new()): a const item is instantiated
\* at every use, so each use of DATABASE runs ArangoDB::new() again.
\* n is the number of ArangoDB values constructed so far; the result is the new one.
DATABASE(n) == n + 1

---------------------------------------------------------------------------
(* Call futures *)

Idle == [pc |-> "idle"]

InFlight == {"started", "connecting", "querying"}

\* futures that have not yet constructed their ArangoDB
Pending == Cardinality({s \in Slots : calls[s].pc \in {"started", "connecting"}})

\* the closure of an OperationEntry, T::call, up to the creation of the future
Closure(variant, key, data, arguments, query) ==
    [pc |-> "started", key |-> key, variant |-> variant, data |-> data,
     args |-> arguments, base |-> query,
     query |-> IF variant = "Get" THEN GetBuildQuery(query)
               ELSE GetAllBuildQuery(query, arguments)]

\* mutant of CallByKeyResult: an unknown key falls back to some registered entry
CallByKeyFallback(ops, key, arguments, query) ==
    IF DOMAIN ops = {} THEN [pc |-> "none", key |-> key]
    ELSE LET k == IF key \in DOMAIN ops THEN key ELSE CHOOSE x \in DOMAIN ops : TRUE
         IN Closure(ops[k].variant, key, ops[k].data, arguments, query)

\* OperationRegistry::call_by_key: self.operations.get(key).map(...)
CallByKeyResult(ops, key, arguments, query) ==
    IF key \in DOMAIN ops
    THEN Closure(ops[key].variant, key, ops[key].data, arguments, query)
    ELSE [pc |-> "none", key |-> key]

\* every key a registry of the pool can hold
KeyPool == {OperationName(v, d) : v \in Variants, d \in RegPool}

\* the keys callers ask for: getUser, getAllUsers and an unknown one
CallKeys ==
    { <<"g","e","t","U","s","e","r">>,
      <<"g","e","t","A","l","l","U","s","e","r","s">>,
      <<"n","o","p","e">> }

TypeOK ==
    /\ DOMAIN operations \subseteq KeyPool
    /\ registered \in SeqsUpTo(RegPool, MaxRegs)
    /\ handles \in 0..MaxHandles
    /\ \A s \in Slots : calls[s].pc \in {"idle", "none", "done"} \cup InFlight

Init ==
    /\ operations = <<>>
    /\ registered = <<>>
    /\ calls = [s \in Slots |-> Idle]
    /\ handles = 0
    /\ num = PosInt(Zero64)
    /\ converted = None

\* register_entity(&mut self, ..): no call future borrows the registry meanwhile
RegisterEntity(data) ==
    /\ Len(registered) < MaxRegs
    /\ \A s \in Slots : calls[s].pc \notin InFlight
    /\ operations' = RegisterEntityOps(operations, data)
    /\ registered' = Append(registered, data)
    /\ UNCHANGED <<calls, handles, num, converted>>

\* call_by_key(key, arguments, query)
CallByKey(s, key, in) ==
    /\ calls[s].pc = "idle"
    /\ key \in DOMAIN operations => handles + Pending < MaxHandles
    /\ calls' = [calls EXCEPT ![s] = CallByKeyResult(operations, key, in.args, in.query)]
    /\ UNCHANGED <<operations, registered, handles, num, converted>>

\* first poll of the future: to_aql, the bind table, and DATABASE.get() is awaited
Poll(s) ==
    /\ calls[s].pc = "started"
    /\ LET c == calls[s] IN
       calls' = [calls EXCEPT ![s] =
            [pc |-> "connecting", key |-> c.key, variant |-> c.variant, data |-> c.data,
             args |-> c.args, base |-> c.base, query |-> c.query,
             query_str |-> ToAql(c.query),
             binds |-> IF c.variant = "Get" THEN GetBinds(c.query, c.data, c.args)
                       ELSE GetAllBinds(c.query, c.data, c.args)]]
    /\ UNCHANGED <<operations, registered, handles, num, converted>>

\* DATABASE.get().await completes; .database.aql_query(..) is sent and awaited
Connect(s) ==
    /\ calls[s].pc = "connecting"
    /\ handles' = DATABASE(handles)
    /\ LET c == calls[s] IN
       calls' = [calls EXCEPT ![s] =
            [pc |-> "querying", key |-> c.key, variant |-> c.variant, data |-> c.data,
             args |-> c.args, base |-> c.base, query |-> c.query,
             query_str |-> c.query_str, binds |-> c.binds,
             handle |-> handles',
             sent |-> [text |-> c.query_str, binds |-> c.binds]]]
    /\ UNCHANGED <<operations, registered, num, converted>>

\* the store replies and the future completes with the match's value
Reply(s, entries) ==
    /\ calls[s].pc = "querying"
    /\ LET c == calls[s] IN
       calls' = [calls EXCEPT ![s] =
            [pc |-> "done", key |-> c.key, variant |-> c.variant, data |-> c.data,
             args |-> c.args, base |-> c.base, query |-> c.query,
             query_str |-> c.query_str, binds |-> c.binds,
             handle |-> c.handle, sent |-> c.sent,
             entries |-> entries,
             result |-> IF c.variant = "Get" THEN GetResult(c.data, entries)
                        ELSE GetAllResult(c.data, entries)]]
    /\ UNCHANGED <<operations, registered, handles, num, converted>>

\* the caller consumes the outcome (None, or the completed future's value)
Drop(s) ==
    /\ calls[s].pc \in {"none", "done"}
    /\ calls' = [calls EXCEPT ![s] = Idle]
    /\ UNCHANGED <<operations, registered, handles, num, converted>>

Next ==
    \/ \E data \in RegPool : RegisterEntity(data)
    \/ \E s \in Slots, key \in CallKeys, in \in CallInputs : CallByKey(s, key, in)
    \/ \E s \in Slots : Poll(s)
    \/ \E s \in Slots : Connect(s)
    \/ \E s \in Slots, entries \in StoreReplies : Reply(s, entries)
    \/ \E s \in Slots : Drop(s)

Spec == Init /\ [][Next]_vars

---------------------------------------------------------------------------
(* convert_number on its own: the input is drawn from NumPool *)

LimbVals == {0, 1, Half - 1, Half, Base - 1}
Mags == {<<a, b, c, d>> : a \in LimbVals, b \in LimbVals, c \in LimbVals, d \in LimbVals}
         \cup {<<0, 0, 45776, 24064>>, <<0, 0, 0, 5>>}      \* 3000000000, 5

NumPool ==
    {PosInt(m) : m \in Mags}
    \cup {NegInt(m) : m \in {x \in Mags : x # Zero64 /\ ~MagGreater(x, I64MinMag)}}
    \cup {Float("1.5")}

InitNum ==
    /\ operations = <<>>
    /\ registered = <<>>
    /\ calls = [s \in Slots |-> Idle]
    /\ handles = 0
    /\ num \in NumPool
    /\ converted = None

\* the converter meets a number: convert_number(n)
ConvertStep ==
    /\ converted = None
    /\ converted' = Some(ConvertNumber(num))
    /\ UNCHANGED <<operations, registered, calls, handles, num>>

\* the next number of the document
NextNumber(n) ==
    /\ converted # None
    /\ num' = n
    /\ converted' = None
    /\ UNCHANGED <<operations, registered, calls, handles>>

NextNum ==
    \/ ConvertStep
    \/ \E n \in NumPool : NextNumber(n)

SpecNum == InitNum /\ [][NextNum]_vars

---------------------------------------------------------------------------
(* Helpers of the properties *)

\* the two keys the variants derive from each entity of the pool
KeyTable == [d \in RegPool |-> {GetOperationName(d), GetAllOperationName(d)}]

DerivedKeys(data) == KeyTable[data]

Done(s, variant) == calls[s].pc = "done" /\ calls[s].variant = variant

\* the last registration that wrote key k
LatestIndex(k) ==
    CHOOSE i \in DOMAIN registered :
        /\ k \in DerivedKeys(registered[i])
        /\ \A j \in DOMAIN registered : j > i => k \notin DerivedKeys(registered[j])

AllKeysPresent ==
    \A i \in DOMAIN registered : DerivedKeys(registered[i]) \subseteq DOMAIN operations

NoOtherKeys ==
    \A k \in DOMAIN operations : \E i \in DOMAIN registered : k \in DerivedKeys(registered[i])

---------------------------------------------------------------------------
(* C1 *)

\* C1 as stated: after any register_entity calls every registered entity E has
\* an entry under its Get key and one under its GetAll key, each entry's data
\* referring to E, and the registry holds no other key.
C1_Original ==
    /\ AllKeysPresent
    /\ NoOtherKeys
    /\ \A i \in DOMAIN registered : \A k \in DerivedKeys(registered[i]) :
           k \in DOMAIN operations => operations[k].data.entity = registered[i].entity

\* C1 amended: every registered entity has an entry under its Get key and under
\* its GetAll key, the registry holds no other key, and each entry's data is that
\* of the latest registration that derived the entry's key.
C1_RegistryKeys ==
    /\ AllKeysPresent
    /\ NoOtherKeys
    /\ \A k \in DOMAIN operations : operations[k].data = registered[LatestIndex(k)]

C1_Witness ==
    /\ Len(registered) = 2
    /\ registered[1].entity.name = registered[2].entity.name
    /\ registered[1].entity # registered[2].entity
    /\ Cardinality(DOMAIN operations) = 2

---------------------------------------------------------------------------
(* C2 *)

\* C2: a Get call returns NotFound(entity name) exactly when the store failed or
\* returned no document; with at least one document it returns the conversion of
\* the first document.
C2_GetOutcome ==
    \A s \in Slots : Done(s, "Get") =>
        LET c == calls[s] IN
        /\ (c.result = Err(NotFoundError(c.data.entity.name)))
              <=> (c.entries.t = "Err" \/ c.entries.v = <<>>)
        /\ (c.entries.t = "Ok" /\ c.entries.v # <<>>)
              => c.result = Ok(ConvertJsonToJuniperValue(c.entries.v[1]))

C2_Witness ==
    \E s \in Slots :
        /\ Done(s, "Get")
        /\ calls[s].entries = Ok(<<Doc1>>)
        /\ calls[s].result.t = "Ok"
        /\ calls[s].result.v.fields["firstName"] = VString("A")

---------------------------------------------------------------------------
(* C3 *)

---------------------------------------------------------------------------
(* C4 *)

\* C4 as stated: entities with pairwise distinct names leave exactly two
\* entries each in the registry.
C4_DistinctNamesDistinctKeys ==
    (\A i, j \in DOMAIN registered : i # j => registered[i].entity.name # registered[j].entity.name)
        => Cardinality(DOMAIN operations) = 2 * Len(registered)

---------------------------------------------------------------------------
(* C5 *)

IsLiteral(token) == "lit" \in DOMAIN token

\* C5: whatever the base query carries, the query a Get call serializes and
\* sends has the filter _key == <bind reference of id> and limit 1, its text
\* holds no literal, and the id reaches the store through the bind table only.
C5_GetQuery ==
    \A s \in Slots : (calls[s].pc \in {"querying", "done"} /\ calls[s].variant = "Get") =>
        LET c == calls[s]
            idKey == GetArgumentKey(c.query, "id")
        IN
        /\ c.query.filter = Some(AQLFilter(AQLQueryParameter("_key"), "EQUAL", AQLQueryBind("id")))
        /\ c.query.limit = Some(1)
        /\ c.sent.text = ToAql(c.query)
        /\ \E i \in DOMAIN c.sent.text :
              /\ i + 3 \in DOMAIN c.sent.text
              /\ c.sent.text[i] = [kw |-> "FILTER"]
              /\ c.sent.text[i + 1] = [param |-> "_key"]
              /\ c.sent.text[i + 2] = [op |-> "EQUAL"]
              /\ c.sent.text[i + 3] = [bindref |-> idKey]
        /\ [limit |-> 1] \in Range(c.sent.text)
        /\ \A i \in DOMAIN c.sent.text : ~IsLiteral(c.sent.text[i])
        /\ DOMAIN c.sent.binds = {"@collection", idKey}
        /\ c.sent.binds[idKey] = c.args.id
        /\ c.sent.binds["@collection"] = c.data.entity.collection_name

C5_Witness ==
    \E s \in Slots :
        /\ calls[s].pc = "querying"
        /\ calls[s].variant = "Get"
        /\ calls[s].base.filter # None
        /\ calls[s].base.limit = Some(7)
        /\ calls[s].sent.binds["arg_id"] = "456"

---------------------------------------------------------------------------
(* C6 *)

\* C6: a GetAll call whose store execution succeeds with n documents returns
\* success with the list of the n conversions, in order (the empty list for n = 0).
C6_GetAllList ==
    \A s \in Slots : (Done(s, "GetAll") /\ calls[s].entries.t = "Ok") =>
        LET c == calls[s] IN
        /\ c.result.t = "Ok"
        /\ c.result.v.t = "List"
        /\ Len(c.result.v.items) = Len(c.entries.v)
        /\ \A i \in DOMAIN c.entries.v :
              c.result.v.items[i] = ConvertJsonToJuniperValue(c.entries.v[i])

C6_Witness ==
    \E s \in Slots :
        /\ Done(s, "GetAll")
        /\ calls[s].entries = Ok(<<Doc2, Doc1>>)
        /\ Len(calls[s].result.v.items) = 2
        /\ calls[s].result.v.items[1].fields["age"] = VInt(I32_MAX)

---------------------------------------------------------------------------
(* C7 *)

InI32Range(n) ==
    /\ n.m[1] = 0
    /\ n.m[2] = 0
    /\ IF n.k = "NegInt" THEN n.m[3] < Half \/ (n.m[3] = Half /\ n.m[4] = 0)
       ELSE n.m[3] < Half

\* the 32-bit clamp of the integer n
Clamped(n) ==
    IF InI32Range(n)
    THEN IF n.k # "NegInt" THEN n.m[3] * Base + n.m[4]
         ELSE IF n.m[3] = Half THEN I32_MIN
         ELSE 0 - (n.m[3] * Base + n.m[4])
    ELSE IF n.k = "NegInt" THEN I32_MIN ELSE I32_MAX

\* C7: an integral number v converts to the 32-bit integer clamp(v): v when it
\* fits, 2^31-1 above, -2^31 below; never a wrapped value.
C7_Clamp ==
    (converted # None /\ num.k # "Float") => converted.v = VInt(Clamped(num))

C7_Witness ==
    /\ num = PosInt(<<0, 0, 45776, 24064>>)
    /\ converted = Some(VInt(I32_MAX))

---------------------------------------------------------------------------
(* C8 *)

\* C8: call_by_key gives None exactly when the key is not in the registry, and
\* then nothing is sent to the store; for a present key it runs the closure of
\* the variant registered under the key with that entry's data and the caller's
\* arguments and base query; the registry is unchanged either way.
C8_CallByKey ==
    [][\A s \in Slots : (calls[s].pc = "idle" /\ calls'[s].pc # "idle") =>
          /\ (calls'[s].pc = "none") <=> (calls'[s].key \notin DOMAIN operations)
          /\ operations' = operations
          /\ calls'[s].pc = "none" =>
                /\ handles' = handles
                /\ \A t \in Slots \ {s} : calls'[t] = calls[t]
                /\ "sent" \notin DOMAIN calls'[s]
          /\ calls'[s].pc # "none" =>
                /\ calls'[s].pc = "started"
                /\ calls'[s].variant = operations[calls'[s].key].variant
                /\ calls'[s].data = operations[calls'[s].key].data
                /\ [args |-> calls'[s].args, query |-> calls'[s].base] \in CallInputs
                /\ calls'[s].query.filter \in
                      {calls'[s].base.filter,
                       Some(AQLFilter(AQLQueryParameter("_key"), "EQUAL", AQLQueryBind("id")))}
      ]_vars

C8_Witness ==
    \E s, t \in Slots :
        /\ calls[s].pc = "none"
        /\ calls[t].pc = "started"
        /\ calls[s].key \notin DOMAIN operations
        /\ calls[t].key \in DOMAIN operations

---------------------------------------------------------------------------
(* C9 *)

\* C9: registering an entity whose derived keys are present adds no entry and
\* replaces both entries, and every call made afterwards on either key runs
\* against the OperationData of the latest registration.
C9_ReRegistration ==
    [][/\ \A d \in RegPool :
             (registered' = Append(registered, d) /\ DerivedKeys(d) \subseteq DOMAIN operations) =>
                 /\ Cardinality(DOMAIN operations') = Cardinality(DOMAIN operations)
                 /\ \A k \in DerivedKeys(d) : operations'[k].data = d
       /\ \A s \in Slots : (calls[s].pc = "idle" /\ calls'[s].pc = "started") =>
             calls'[s].data = registered[LatestIndex(calls'[s].key)]
      ]_vars

C9_Witness ==
    \E s \in Slots :
        /\ Len(registered) = 2
        /\ registered[1] # registered[2]
        /\ DerivedKeys(registered[1]) = DerivedKeys(registered[2])
        /\ calls[s].pc = "started"
        /\ calls[s].key = GetOperationName(registered[2])
        /\ calls[s].data = registered[2]

---------------------------------------------------------------------------
(* C10 *)

\* C10 as stated: the store-access handle is constructed at most once in the
\* life of the process and every call uses that one handle.
C10_SingleHandle ==
    /\ handles <= 1
    /\ \A s, t \in Slots :
          (calls[s].pc \in {"querying", "done"} /\ calls[t].pc \in {"querying", "done"})
              => calls[s].handle = calls[t].handle

=============================================================================
